---------------------------- MODULE Spec2Model ----------------------------
(***************************************************************************)
(* SiteScout (src/app.py): the financial engine, the investor-deck texts   *)
(* derived from its report, the geocoding lookup and the Streamlit script  *)
(* pass gated by session_state['analysis_active'].                         *)
(*                                                                         *)
(* Numbers.  Python computes the report in int/float arithmetic.  Here a   *)
(* number is the exact rational [n |-> numerator, d |-> denominator] in    *)
(* lowest terms with d > 0; the literals 0.05 and 0.3 are 1/20 and 3/10.   *)
(* A value with d = 0 stands for "ZeroDivisionError was raised while       *)
(* computing this value".  The inputs are the integers the sidebar yields; *)
(* products, sums and the 5% and 30% shares of the revenue are then exact  *)
(* in binary floating point as well, and the rounding of the quotients     *)
(* (margin, break-even, coverage, ratios) is below the precision of every  *)
(* comparison and formatted text derived from them on the inputs below.    *)
(***************************************************************************)
EXTENDS Integers, Sequences, FiniteSets, TLC

VARIABLES
    analysis_active,  \* st.session_state['analysis_active']
    last_click,       \* history: the most recent button click
    area, rent, capex, ticket, orders,   \* sidebar number inputs
    staff_cost, cogs_pct,                \* the two remaining engine arguments
    geo,              \* what the geocoding service answered in the latest pass
    coords,           \* (lat, lon, addr) returned by get_coords in the latest pass
    screen,           \* what the latest pass rendered
    fin,              \* the report computed in the latest pass
    units,            \* "you need to sell N units" of the strategic verdict
    card,             \* the dashboard "Payback Period" card
    pdf,              \* the texts of the investor deck built in the latest pass
    ops,              \* the collaborators invoked in the latest pass
    pc,               \* engine harness: position of the caller
    verdict           \* engine harness: the verdict derived from the report

vars == <<analysis_active, last_click, area, rent, capex, ticket, orders,
          staff_cost, cogs_pct, geo, coords, screen, fin, units, card, pdf,
          ops, pc, verdict>>

(***************************************************************************)
(* Bounds of the model.                                                    *)
(***************************************************************************)
MaxOrderStep == 4
MaxLat == 1

(***************************************************************************)
(* Exact arithmetic.                                                       *)
(***************************************************************************)
Abs(x) == IF x < 0 THEN -x ELSE x

RECURSIVE GCD(_, _)
GCD(x, y) == IF y = 0 THEN x ELSE GCD(y, x % y)

ZDE == [n |-> 0, d |-> 0]

IsErr(x) == x.d = 0

Norm(n, d) ==
    LET g == GCD(Abs(n), d)
    IN  [n |-> n \div g, d |-> d \div g]

R(i) == [n |-> i, d |-> 1]

Frac(i, j) == Norm(i, j)

RAdd(x, y) ==
    IF IsErr(x) \/ IsErr(y) THEN ZDE
    ELSE Norm(x.n * y.d + y.n * x.d, x.d * y.d)

RNeg(x) == IF IsErr(x) THEN ZDE ELSE [n |-> -x.n, d |-> x.d]

RSub(x, y) == RAdd(x, RNeg(y))

RMul(x, y) ==
    IF IsErr(x) \/ IsErr(y) THEN ZDE
    ELSE LET g1 == GCD(Abs(x.n), y.d)
             g2 == GCD(Abs(y.n), x.d)
         IN  Norm((x.n \div g1) * (y.n \div g2), (x.d \div g2) * (y.d \div g1))

RDiv(x, y) ==
    IF IsErr(x) \/ IsErr(y) THEN ZDE
    ELSE IF y.n = 0 THEN ZDE
    ELSE IF y.n > 0 THEN RMul(x, [n |-> y.d, d |-> y.n])
    ELSE RMul(x, [n |-> -y.d, d |-> -y.n])

RGt(x, i) == x.n > i * x.d

\* int(x): truncation toward zero
RInt(x) == IF x.n >= 0 THEN x.n \div x.d ELSE -((-x.n) \div x.d)

\* ceil(x)
RCeil(x) == -((-x.n) \div x.d)

\* format(x, ".<k>f") with scale = 10^k, as a number of 1/scale units
\* (round half to even)
FmtF(x, scale) ==
    LET a  == Abs(x.n) * scale
        q  == a \div x.d
        r2 == 2 * (a % x.d)
        up == IF r2 > x.d THEN 1 ELSE IF r2 < x.d THEN 0 ELSE q % 2
    IN  IF x.n >= 0 THEN q + up ELSE -(q + up)

(***************************************************************************)
(* FinancialEngine.calculate_roi                                           *)
(***************************************************************************)
Sentinel == 999

monthly_rev(o, t) == RMul(RMul(R(o), R(t)), R(30))

monthly_rent(a, r) == RMul(R(a), R(r))

monthly_cogs(rev, p) == RMul(rev, RDiv(R(p), R(100)))

\* slip: 0.5 written for 0.05 in the cost breakdown
misc_cost_half(rev) == RMul(rev, Frac(1, 2))

misc_cost(rev) == RMul(rev, Frac(1, 20))

\* slip: the staff cost left out of the operating expenses
monthly_opex_no_staff(mrent, s, rev) == RAdd(mrent, RMul(rev, Frac(1, 20)))

monthly_opex(mrent, s, rev) == RAdd(RAdd(mrent, R(s)), RMul(rev, Frac(1, 20)))

net_profit(rev, cogs, opex) == RSub(RSub(rev, cogs), opex)

\* slip: the revenue guard dropped
margin_unguarded(np, rev) == RMul(RDiv(np, rev), R(100))

margin(np, rev) ==
    IF RGt(rev, 0) THEN RMul(RDiv(np, rev), R(100)) ELSE R(0)

\* slip: the guard tests the capital instead of the profit
breakeven_guard_capex(c, np) ==
    IF c > 0 /\ np.n # 0 THEN RDiv(R(c), np) ELSE R(Sentinel)

breakeven(c, np) ==
    IF RGt(np, 0) THEN RDiv(R(c), np) ELSE R(Sentinel)

rent_coverage(rev, mrent) ==
    IF RGt(mrent, 0) THEN RDiv(rev, mrent) ELSE R(0)

opex_ratio(opex, rev) ==
    IF RGt(rev, 0) THEN RMul(RDiv(opex, rev), R(100)) ELSE R(0)

\* slip: the capital guard dropped
coc_return_unguarded(np, c) == RMul(RDiv(RMul(np, R(12)), R(c)), R(100))

coc_return(np, c) ==
    IF c > 0 THEN RMul(RDiv(RMul(np, R(12)), R(c)), R(100)) ELSE R(0)

costs(mrent, cogs, s, rev) ==
    [Rent |-> mrent, COGS |-> cogs, Staff |-> R(s), Misc |-> misc_cost(rev)]

calculate_roi(a, r, c, t, o, s, p) ==
    LET rev   == monthly_rev(o, t)
        mrent == monthly_rent(a, r)
        cogs  == monthly_cogs(rev, p)
        opex  == monthly_opex(mrent, s, rev)
        np    == net_profit(rev, cogs, opex)
        rep   == [rev |-> rev, profit |-> np, margin |-> margin(np, rev),
                  breakeven |-> breakeven(c, np),
                  rent_cov |-> rent_coverage(rev, mrent),
                  opex_ratio |-> opex_ratio(opex, rev),
                  coc |-> coc_return(np, c),
                  costs |-> costs(mrent, cogs, s, rev)]
        bad   == \/ \E k \in {"rev", "profit", "margin", "breakeven",
                              "rent_cov", "opex_ratio", "coc"} : IsErr(rep[k])
                 \/ \E k \in {"Rent", "COGS", "Staff", "Misc"} : IsErr(rep.costs[k])
    IN  [raised |-> bad, val |-> rep]

NoReport == [raised |-> FALSE, val |-> <<>>]

(***************************************************************************)
(* LocationEngine.get_coords.  A response of the geocoding service is      *)
(* [exc, status, n, lat, lon]: the exception raised inside the try block   *)
(* ("none" when there is none), the HTTP status, the number of results and *)
(* the coordinates of the first result.                                    *)
(***************************************************************************)
None == [none |-> TRUE, lat |-> 0, lon |-> 0]

get_coords(resp) ==
    IF resp.exc = "none" /\ resp.status = 200 /\ resp.n > 0
    THEN [none |-> FALSE, lat |-> resp.lat, lon |-> resp.lon]
    ELSE None

\* "if lat:" (None and 0.0 are falsy)
Truthy(co) == ~co.none /\ co.lat # 0

NotCalled == [exc |-> "not_called", status |-> 0, n |-> 0, lat |-> 0, lon |-> 0]

Lats == (-MaxLat) .. MaxLat

Lons == {0, 77}

GeoResponses ==
    {[exc |-> e, status |-> 0, n |-> 0, lat |-> 0, lon |-> 0] :
        e \in {"Timeout", "ConnectionError"}}
    \cup {[exc |-> "none", status |-> 500, n |-> 0, lat |-> 0, lon |-> 0]}
    \cup {[exc |-> "none", status |-> 200, n |-> 0, lat |-> 0, lon |-> 0]}
    \cup {[exc |-> "ValueError", status |-> 200, n |-> 1, lat |-> 0, lon |-> 0]}
    \cup {[exc |-> "none", status |-> 200, n |-> 1, lat |-> la, lon |-> lo] :
            la \in Lats, lo \in Lons}

(***************************************************************************)
(* create_investor_deck: the texts derived from the report.                *)
(***************************************************************************)
\* slip: >= written for >
Verdict_ge(rent_cov) ==
    IF rent_cov.n >= 4 * rent_cov.d THEN "Strong Buy"
    ELSE IF rent_cov.n >= 2 * rent_cov.d THEN "Cautious Hold"
    ELSE "High Risk"

Verdict(rent_cov) ==
    IF RGt(rent_cov, 4) THEN "Strong Buy"
    ELSE IF RGt(rent_cov, 2) THEN "Cautious Hold"
    ELSE "High Risk"

create_investor_deck(f, c, o) ==
    [built    |-> TRUE,
     verdict  |-> Verdict(f.rent_cov),
     summary  |-> [capex |-> c,
                   breakeven |-> FmtF(f.breakeven, 10), breakeven_unit |-> "months",
                   rev_lakhs |-> FmtF(RDiv(f.rev, R(100000)), 10),
                   orders |-> o],
     table    |-> [rev |-> FmtF(f.rev, 1),
                   rent |-> FmtF(f.costs.Rent, 1),
                   staff_misc |-> FmtF(RAdd(f.costs.Staff, f.costs.Misc), 1),
                   profit |-> FmtF(f.profit, 1),
                   margin |-> FmtF(f.margin, 10),
                   coc |-> FmtF(f.coc, 10)],
     glossary |-> [rent_cov |-> FmtF(f.rent_cov, 100),
                   opex_ratio |-> FmtF(f.opex_ratio, 10),
                   breakeven |-> FmtF(f.breakeven, 10), breakeven_unit |-> "Mo",
                   coc |-> FmtF(f.coc, 10)]]

NoPdf == [built |-> FALSE]

(***************************************************************************)
(* The dashboard of one script pass.                                       *)
(***************************************************************************)
StaffDefault == 150000
CogsDefault == 30

payback_card(f) ==
    [shown |-> TRUE, val |-> FmtF(f.breakeven, 10), desc |-> "Months to Break-Even"]

NoCard == [shown |-> FALSE]

units_needed(f, t) ==
    LET q == RDiv(f.costs.Rent, RMul(R(t), Frac(3, 10)))
    IN  IF IsErr(q) THEN [shown |-> TRUE, raised |-> TRUE, val |-> 0]
        ELSE [shown |-> TRUE, raised |-> FALSE, val |-> RInt(q)]

NoUnits == [shown |-> FALSE]

Welcome ==
    [geo |-> NotCalled, coords |-> None, screen |-> "welcome", fin |-> NoReport,
     units |-> NoUnits, card |-> NoCard, pdf |-> NoPdf, ops |-> {}]

\* lines 235-282, given what the calls it makes return: co from get_coords,
\* f from calculate_roi and u from the units computation of line 276 (f and
\* u are used only on the branches that make those calls)
Dashboard(co, f, u, c, o, resp) ==
    IF ~Truthy(co)
    THEN [geo |-> resp, coords |-> co, screen |-> "not_found", fin |-> NoReport,
          units |-> NoUnits, card |-> NoCard, pdf |-> NoPdf,
          ops |-> {"geocode"}]
    ELSE IF f.raised
    THEN [geo |-> resp, coords |-> co, screen |-> "exception", fin |-> NoReport,
          units |-> NoUnits, card |-> NoCard, pdf |-> NoPdf,
          ops |-> {"geocode", "market", "roi"}]
    ELSE IF u.raised
    THEN [geo |-> resp, coords |-> co, screen |-> "exception", fin |-> f,
          units |-> u, card |-> payback_card(f.val), pdf |-> NoPdf,
          ops |-> {"geocode", "market", "roi"}]
    ELSE [geo |-> resp, coords |-> co, screen |-> "report", fin |-> f,
          units |-> u, card |-> payback_card(f.val),
          pdf |-> create_investor_deck(f.val, c, o),
          ops |-> {"geocode", "market", "roi", "pdf"}]

\* slip: the dashboard rendered whatever the flag
Pass_ungated(active, co, f, u, c, o, resp) == Dashboard(co, f, u, c, o, resp)

\* lines 234-291: the dashboard if the flag is set, else the welcome screen
Pass(active, co, f, u, c, o, resp) ==
    IF active THEN Dashboard(co, f, u, c, o, resp) ELSE Welcome

Render(out) ==
    /\ geo' = out.geo
    /\ coords' = out.coords
    /\ screen' = out.screen
    /\ fin' = out.fin
    /\ units' = out.units
    /\ card' = out.card
    /\ pdf' = out.pdf
    /\ ops' = out.ops

\* one run of the script below the sidebar with the flag and the inputs as
\* given, the geocoding service answering resp
ScriptPass(active, a, r, c, t, o, resp) ==
    \E f \in {calculate_roi(a, r, c, t, o, StaffDefault, CogsDefault)} :
      \E u \in {units_needed(f.val, t)} :
        \E out \in {Pass(active, get_coords(resp), f, u, c, o, resp)} :
          Render(out)

(***************************************************************************)
(* The Streamlit application: every interaction reruns the script.         *)
(***************************************************************************)
OrderSteps == {10 * k : k \in 1 .. MaxOrderStep}

AreaRange == {100, 1200}
RentRange == {10, 150}
CapexRange == {500000, 2500000, 5000000}
TicketRange == {50, 450}
OrdersRange == OrderSteps \cup {85, 120}

Init ==
    /\ analysis_active = FALSE
    /\ last_click = "none"
    /\ area = 1200
    /\ rent = 150
    /\ capex = 5000000
    /\ ticket = 450
    /\ orders = 120
    /\ staff_cost = StaffDefault
    /\ cogs_pct = CogsDefault
    /\ geo = Welcome.geo
    /\ coords = Welcome.coords
    /\ screen = Welcome.screen
    /\ fin = Welcome.fin
    /\ units = Welcome.units
    /\ card = Welcome.card
    /\ pdf = Welcome.pdf
    /\ ops = Welcome.ops
    /\ pc = "app"
    /\ verdict = "none"

\* a rerun that changes neither an input nor the flag (theme toggle, map
\* interaction, location text)
Rerun ==
    /\ pc = "app"
    /\ \E resp \in GeoResponses :
          ScriptPass(analysis_active, area, rent, capex, ticket, orders, resp)
    /\ UNCHANGED <<analysis_active, last_click, area, rent, capex, ticket, orders,
                   staff_cost, cogs_pct, pc, verdict>>

\* the inputs after one number input was given another value of its range
Changed ==
    {<<a, rent, capex, ticket, orders>> : a \in AreaRange \ {area}}
    \cup {<<area, r, capex, ticket, orders>> : r \in RentRange \ {rent}}
    \cup {<<area, rent, c, ticket, orders>> : c \in CapexRange \ {capex}}
    \cup {<<area, rent, capex, t, orders>> : t \in TicketRange \ {ticket}}
    \cup {<<area, rent, capex, ticket, o>> : o \in OrdersRange \ {orders}}

ChangeInput ==
    /\ pc = "app"
    /\ \E new \in Changed, resp \in GeoResponses :
          /\ area' = new[1] /\ rent' = new[2] /\ capex' = new[3]
          /\ ticket' = new[4] /\ orders' = new[5]
          /\ ScriptPass(analysis_active, new[1], new[2], new[3], new[4], new[5], resp)
    /\ UNCHANGED <<analysis_active, last_click, staff_cost, cogs_pct, pc, verdict>>

\* the pass of the click stops at st.rerun() (line 228); the rerun renders
ClickRun ==
    /\ pc = "app"
    /\ analysis_active' = TRUE
    /\ last_click' = "run"
    /\ \E resp \in GeoResponses :
          ScriptPass(TRUE, area, rent, capex, ticket, orders, resp)
    /\ UNCHANGED <<area, rent, capex, ticket, orders, staff_cost, cogs_pct,
                   pc, verdict>>

ClickReset ==
    /\ pc = "app"
    /\ analysis_active' = FALSE
    /\ last_click' = "reset"
    /\ \E resp \in GeoResponses :
          ScriptPass(FALSE, area, rent, capex, ticket, orders, resp)
    /\ UNCHANGED <<area, rent, capex, ticket, orders, staff_cost, cogs_pct,
                   pc, verdict>>

Next == Rerun \/ ChangeInput \/ ClickRun \/ ClickReset

Spec == Init /\ [][Next]_vars

(***************************************************************************)
(* The engine on its own: calculate_roi and the verdict applied to inputs  *)
(* drawn from sets that include the degenerate values.                     *)
(***************************************************************************)
EngAreas == {0, 100, 1200}
EngRents == {0, 150}
EngCapex == {0, 2500000}
EngTickets == {0, 50, 450}
EngOrders == {0, 85} \cup OrderSteps
EngStaff == {0, 150000}
EngCogs == {0, 30, 100}

InitEngine ==
    /\ analysis_active = FALSE
    /\ last_click = "none"
    /\ area \in EngAreas
    /\ rent \in EngRents
    /\ capex \in EngCapex
    /\ ticket \in EngTickets
    /\ orders \in EngOrders
    /\ staff_cost \in EngStaff
    /\ cogs_pct \in EngCogs
    /\ geo = Welcome.geo
    /\ coords = Welcome.coords
    /\ screen = Welcome.screen
    /\ fin = NoReport
    /\ units = NoUnits
    /\ card = NoCard
    /\ pdf = NoPdf
    /\ ops = {}
    /\ pc = "input"
    /\ verdict = "none"

CallRoi ==
    /\ pc = "input"
    /\ fin' = calculate_roi(area, rent, capex, ticket, orders, staff_cost, cogs_pct)
    /\ pc' = "computed"
    /\ UNCHANGED <<analysis_active, last_click, area, rent, capex, ticket, orders,
                   staff_cost, cogs_pct, geo, coords, screen, units, card, pdf,
                   ops, verdict>>

CallVerdict ==
    /\ pc = "computed"
    /\ ~fin.raised
    /\ verdict' = Verdict(fin.val.rent_cov)
    /\ pc' = "judged"
    /\ UNCHANGED <<analysis_active, last_click, area, rent, capex, ticket, orders,
                   staff_cost, cogs_pct, geo, coords, screen, fin, units, card,
                   pdf, ops>>

NextEngine == CallRoi \/ CallVerdict

SpecEngine == InitEngine /\ [][NextEngine]_vars

(***************************************************************************)
(* Properties.  The engine properties are checked under SpecEngine, the    *)
(* properties of the dashboard and of the deck under Spec.                 *)
(***************************************************************************)
Computed == pc \in {"computed", "judged"}

Reported == pc = "app" /\ screen = "report"

\* C1: with dailyOrders = 0 the report has monthly revenue 0, margin 0,
\* rent coverage ratio 0 and break-even months equal to the sentinel 999.
C1_ZeroOrders ==
    (Computed /\ orders = 0) =>
        /\ ~fin.raised
        /\ fin.val.rev = R(0)
        /\ fin.val.margin = R(0)
        /\ fin.val.rent_cov = R(0)
        /\ fin.val.breakeven = R(999)

C1_Witness ==
    /\ pc = "computed" /\ orders = 0
    /\ area * rent > 0 /\ ticket > 0 /\ capex > 0
    /\ fin.val.breakeven = R(999)

\* C2: break-even months times net profit is exactly the capital invested
\* (and break-even is finite and positive) when capital and net profit are
\* both positive, and break-even is exactly 999 whenever net profit <= 0.
C2_Breakeven ==
    Computed =>
        /\ (capex > 0 /\ fin.val.profit.n > 0) =>
              /\ RMul(fin.val.breakeven, fin.val.profit) = R(capex)
              /\ fin.val.breakeven.n > 0
              /\ fin.val.breakeven.d > 0
        /\ (fin.val.profit.n <= 0) => fin.val.breakeven = R(999)

C2_Witness ==
    /\ pc = "computed" /\ capex > 0 /\ fin.val.profit.n > 0
    /\ fin.val.breakeven # R(999) /\ fin.val.breakeven.d > 1

\* C3: the four entries of the cost breakdown add up to monthly revenue
\* minus net profit.
C3_AccountingIdentity ==
    Computed =>
        RAdd(RAdd(RAdd(fin.val.costs.Rent, fin.val.costs.COGS),
                  fin.val.costs.Staff), fin.val.costs.Misc)
            = RSub(fin.val.rev, fin.val.profit)

C3_Witness ==
    /\ pc = "computed" /\ fin.val.rev.n > 0
    /\ fin.val.costs.Rent.n > 0 /\ fin.val.costs.COGS.n > 0
    /\ fin.val.costs.Staff.n > 0 /\ fin.val.costs.Misc.n > 0

\* C4 as stated: the deck's verdict is "Cautious Hold" when the rent
\* coverage ratio is exactly 4.0 and when it is exactly 2.0.
C4_BothBoundariesHold ==
    Reported =>
        /\ fin.val.rent_cov = R(4) => pdf.verdict = "Cautious Hold"
        /\ fin.val.rent_cov = R(2) => pdf.verdict = "Cautious Hold"

\* C4 as amended: the deck's verdict is "Cautious Hold" when the rent
\* coverage ratio is exactly 4.0 and "High Risk" when it is exactly 2.0.
C4_Boundaries ==
    Reported =>
        /\ fin.val.rent_cov = R(4) => pdf.verdict = "Cautious Hold"
        /\ fin.val.rent_cov = R(2) => pdf.verdict = "High Risk"

C4_Witness == Reported /\ fin.val.rent_cov = R(2) /\ pdf.verdict = "High Risk"

C4_WitnessFour == Reported /\ fin.val.rent_cov = R(4)

\* the lookup failed: an exception, HTTP non-200 or an empty result set
LookupFailed(g) == g.exc # "none" \/ g.status # 200 \/ g.n = 0

\* C5: in an analysis run "location not found" is shown if and only if the
\* geocoding lookup failed; on failure no market data, report or PDF is
\* computed, and on every successful lookup the report is computed and shown.
C5_NotFoundIffLookupFailed ==
    (pc = "app" /\ analysis_active) =>
        /\ (screen = "not_found") <=> LookupFailed(geo)
        /\ LookupFailed(geo) =>
              /\ fin = NoReport /\ ~pdf.built
              /\ ops \cap {"market", "roi", "pdf"} = {}
        /\ ~LookupFailed(geo) =>
              /\ screen = "report" /\ fin # NoReport /\ "roi" \in ops

\* the value is shown as the numeral 999.0 of a duration in months
ShowsSentinelMonths(val, unit) ==
    val = FmtF(R(Sentinel), 10) /\ unit \in {"Months to Break-Even", "months", "Mo"}

\* C6: whenever net profit is zero or negative, neither the payback card,
\* the executive summary nor the KPI glossary presents the break-even value
\* 999 as a duration in months.
C6_SentinelNotShownAsMonths ==
    (Reported /\ fin.val.profit.n <= 0) =>
        /\ ~ShowsSentinelMonths(card.val, card.desc)
        /\ ~ShowsSentinelMonths(pdf.summary.breakeven, pdf.summary.breakeven_unit)
        /\ ~ShowsSentinelMonths(pdf.glossary.breakeven, pdf.glossary.breakeven_unit)

\* C7: the units needed to cover the rent are ceil(monthlyRent /
\* (avgTicketPrice * 0.3)) whenever the divisor is non-zero, and the pass
\* never divides by zero.
C7_UnitsAreCeiling ==
    (pc = "app" /\ units.shown) =>
        /\ ~units.raised
        /\ units.val = RCeil(RDiv(fin.val.costs.Rent, RMul(R(ticket), Frac(3, 10))))

\* C8: calculate_roi returns a report for every input without dividing by
\* zero; with monthly rent 0 the rent coverage ratio is 0 and with capital
\* invested 0 the cash-on-cash return is 0.
C8_Total ==
    Computed =>
        /\ ~fin.raised
        /\ (area * rent = 0) => fin.val.rent_cov = R(0)
        /\ (capex = 0) => fin.val.coc = R(0)

C8_Witness ==
    /\ pc = "computed" /\ area * rent = 0 /\ capex = 0
    /\ orders > 0 /\ ticket > 0
    /\ fin.val.rent_cov = R(0) /\ fin.val.coc = R(0)

\* the scenario of the data model
Scenario ==
    /\ area = 1200 /\ rent = 150 /\ capex = 2500000 /\ ticket = 450
    /\ orders = 85 /\ staff_cost = 150000 /\ cogs_pct = 30

\* C9: every value of the report equals the reference formula (revenue =
\* orders * ticket * 30, rent = area * rentPerSqft, COGS = revenue *
\* cogsPercent / 100, misc = 5% of revenue, net profit = revenue - COGS -
\* rent - staff - misc), and the scenario gives revenue 1147500, rent
\* 180000, COGS 344250, misc 57375, net profit 415875, rent coverage 6.375
\* and the verdict "Strong Buy".
C9_ReferenceFormulas ==
    LET rev100 == orders * ticket * 30 * 100
        f  == fin.val
    IN  /\ Computed =>
              /\ ~fin.raised
              /\ f.rev.d = 1 /\ f.rev.n = orders * ticket * 30
              /\ f.costs.Rent.d = 1 /\ f.costs.Rent.n = area * rent
              /\ f.costs.COGS.n * 100 = orders * ticket * 30 * cogs_pct * f.costs.COGS.d
              /\ f.costs.Misc.n * 100 = orders * ticket * 30 * 5 * f.costs.Misc.d
              /\ f.costs.Staff.d = 1 /\ f.costs.Staff.n = staff_cost
              /\ f.profit.n * 100 =
                    (rev100 - orders * ticket * 30 * cogs_pct
                       - 100 * (area * rent + staff_cost)
                       - orders * ticket * 30 * 5) * f.profit.d
        /\ (Computed /\ Scenario) =>
              /\ f.rev = R(1147500)
              /\ f.costs.Rent = R(180000)
              /\ f.costs.COGS = R(344250)
              /\ f.costs.Misc = R(57375)
              /\ f.profit = R(415875)
              /\ f.rent_cov = [n |-> 51, d |-> 8]
        /\ (pc = "judged" /\ Scenario) => verdict = "Strong Buy"

C9_Witness == pc = "judged" /\ Scenario /\ verdict = "Strong Buy"

\* C10 as stated: the flag is true exactly when the most recent click was
\* Run; geocoding and the financial computation happen in a pass only if
\* the flag is true (after a Reset nothing is computed or shown); and while
\* the flag is true the pass has computed the report from the current
\* inputs.
C10_FlagGatesAndAlwaysRecomputes ==
    pc = "app" =>
        /\ analysis_active <=> last_click = "run"
        /\ (ops # {}) => analysis_active
        /\ ~analysis_active =>
              /\ screen = "welcome" /\ fin = NoReport /\ ~pdf.built /\ ~card.shown
        /\ analysis_active =>
              /\ "geocode" \in ops
              /\ "roi" \in ops
              /\ fin = calculate_roi(area, rent, capex, ticket, orders,
                                     StaffDefault, CogsDefault)

\* C10 as amended: as above, but while the flag is true the report is
\* recomputed from the current inputs in every pass that does not end in
\* "location not found"; a pass that does computes no report.
C10_FlagGates ==
    pc = "app" =>
        /\ analysis_active <=> last_click = "run"
        /\ (ops # {}) => analysis_active
        /\ ~analysis_active =>
              /\ screen = "welcome" /\ fin = NoReport /\ ~pdf.built /\ ~card.shown
        /\ analysis_active => "geocode" \in ops
        /\ (analysis_active /\ screen # "not_found") =>
              /\ "roi" \in ops
              /\ fin = calculate_roi(area, rent, capex, ticket, orders,
                                     StaffDefault, CogsDefault)
        /\ (analysis_active /\ screen = "not_found") =>
              /\ "roi" \notin ops /\ fin = NoReport

C10_Witness ==
    /\ pc = "app" /\ analysis_active /\ last_click = "run"
    /\ screen = "report" /\ orders # 120 /\ area # 1200
    /\ fin.val.rev = R(orders * ticket * 30)

C10_WitnessReset ==
    pc = "app" /\ last_click = "reset" /\ orders # 120 /\ screen = "welcome"

=============================================================================
